---- MODULE Spec2Model ----
(***************************************************************************)
(* Model of the client-side reconciliation layer of discord.js:            *)
(*   - ClientUser._patch / ClientUser.edit   (src/structures/ClientUser.js)*)
(*   - ClientUser.acceptInvite               (src/structures/ClientUser.js)*)
(*   - UserSettingsUpdateAction.handle (client/actions/UserSettingsUpdate) *)
(* JavaScript values are represented by strings: "undefined", "null",      *)
(* "true", "false", "0", and quoted strings such as "'a@b.c'".             *)
(***************************************************************************)
EXTENDS Integers, Sequences, FiniteSets, TLC

VARIABLES
    \* ---- ClientUser entity and session credentials
    user,         \* the ClientUser's fields verified, mfaEnabled, email, premium
    token,        \* client.token
    constructed,  \* client.user exists
    op,           \* the last operation run on the entity
    data,         \* the payload of the last operation
    before,       \* the entity's fields before the last operation
    tokenBefore,  \* client.token before the last operation
    \* ---- acceptInvite calls
    req,          \* per call: state of the invite request
    reqError,     \* per call: the failure the request ended with
    resId,        \* per call: res.id of the request's response
    listeners,    \* the client's GUILD_CREATE listeners, in registration order
    timers,       \* calls whose deadline timer is pending
    promise,      \* per call: the promise returned by acceptInvite
    removeCount,  \* per call: how often removeListener ran for its handler
    timerRan,     \* per call: the timer callback has run
    timerRanAfterResolve, \* per call: the timer callback ran on a resolved call
    seen,         \* per call: guild ids emitted since the request was issued
    early,        \* per call: guild ids emitted while the request was in flight
    \* ---- settings-update handler
    handled,      \* payloads of the handler's invocations, in order
    emitted,      \* USER_SETTINGS_UPDATE emissions, in order
    \* ---- READY handler
    selfRef,      \* client.user: the number of the ClientUser object, 0 for none
    selfId,       \* client.user.id
    created,      \* how many ClientUser objects have been constructed
    usersCache,   \* client.users.cache: user id -> object number, 0 for none
    settings,     \* client.user.settings
    guilds,       \* client.guilds.cache: guild id -> shardID, 0 when not cached
    channels,     \* client.channels.cache: the ids cached
    shard,        \* per shard: pending collections, ready flag, notifications
    readyEvents,  \* per shard: READY events handled
    handlerChecks, \* per shard: checkReady calls made by the READY handler
    lateChecks,   \* per shard: those of them made on a shard already ready
    lastReady,    \* the shard, guilds and private channels of the last READY
    lastCheck,    \* what the last checkReady call of the handler could see
    sentGuilds,   \* per shard: guild ids its READY events carried
    sentChannels, \* per shard: private channel ids its READY events carried
    lastShardOf   \* per guild: the shard whose READY last carried it, 0 for none

userVars == <<user, token, constructed, op, data, before, tokenBefore>>
inviteVars == <<req, reqError, resId, listeners, timers, promise, removeCount,
                timerRan, timerRanAfterResolve, seen, early>>
settingsVars == <<handled, emitted>>
cacheVars == <<selfRef, selfId, created, usersCache, settings, guilds, channels>>
readyVars == <<cacheVars, shard, readyEvents, handlerChecks, lateChecks,
               lastReady, lastCheck, sentGuilds, sentChannels, lastShardOf>>
vars == <<userVars, inviteVars, settingsVars, readyVars>>

(***************************************************************************)
(* JavaScript values                                                       *)
(***************************************************************************)
Absent == "<absent>"          \* the key is not in the payload
Undefined == "undefined"
Null == "null"
Booleans == {"true", "false"}
Strings == {"'a@b.c'"}
Numbers == {"0"}
FieldValues == Booleans \cup Strings \cup Numbers \cup {Null}
TokenValues == {"''", "'tokB'"}

\* typeof v
TypeOf(v) ==
    IF v \in Booleans THEN "boolean"
    ELSE IF v \in Numbers THEN "number"
    ELSE IF v = Undefined THEN "undefined"
    ELSE IF v = Null THEN "object"
    ELSE "string"

\* ToBoolean(v), as in `if (v)`
Truthy(v) == v \notin {"false", "0", "''", Null, Undefined}

\* 'k' in data
In(k, d) == d[k] # Absent

\* data.k: a missing key reads as undefined
Get(d, k) == IF d[k] = Absent THEN Undefined ELSE d[k]

FieldKeys == {"verified", "mfa_enabled", "email", "premium"}
Keys == FieldKeys \cup {"token"}

\* the values the model sends under key k
ValuesOf(k) == IF k = "token" THEN TokenValues ELSE FieldValues

NoData == [k \in Keys |-> Absent]

\* payloads that carry one key
OneKeyPayloads == {[NoData EXCEPT ![k] = v] : <<k, v>> \in
                     {t \in Keys \X (FieldValues \cup TokenValues) :
                         t[2] \in ValuesOf(t[1])}}

\* payloads that carry every entity field, all with the value v, and the token t
FullPayload(v, t) == [k \in Keys |-> IF k = "token" THEN t ELSE v]

FullPayloads == {FullPayload(v, t) : v \in FieldValues, t \in TokenValues \cup {Absent}}

\* the payloads the model sends: the empty one, one key, every field
Payloads == {NoData} \cup OneKeyPayloads \cup FullPayloads

\* a ClientUser object before its first _patch
FreshUser ==
    [verified |-> Undefined, mfaEnabled |-> Undefined,
     email |-> Undefined, premium |-> Undefined]

(***************************************************************************)
(* ClientUser._patch                                                       *)
(***************************************************************************)
\* _patch with the email key tested by truthiness, `if (data.email)`
PatchEmailTruthy(u, d) ==
    [verified |->
        IF In("verified", d) THEN d["verified"] ELSE u.verified,
     mfaEnabled |->
        IF In("mfa_enabled", d)
        THEN (IF TypeOf(d["mfa_enabled"]) = "boolean" THEN d["mfa_enabled"] ELSE Null)
        ELSE IF TypeOf(u.mfaEnabled) = "undefined" THEN Null ELSE u.mfaEnabled,
     email |->
        IF Truthy(Get(d, "email"))
        THEN (IF TypeOf(d["email"]) = "string" THEN d["email"] ELSE Null)
        ELSE u.email,
     premium |->
        IF In("premium", d)
        THEN (IF TypeOf(d["premium"]) = "boolean" THEN d["premium"] ELSE Null)
        ELSE u.premium]

\* _patch with premium keeping its value when the payload's is no boolean,
\* `typeof data.premium === 'boolean' ? data.premium : this.premium`
PatchPremiumSticky(u, d) ==
    [verified |->
        IF In("verified", d) THEN d["verified"] ELSE u.verified,
     mfaEnabled |->
        IF In("mfa_enabled", d)
        THEN (IF TypeOf(d["mfa_enabled"]) = "boolean" THEN d["mfa_enabled"] ELSE Null)
        ELSE IF TypeOf(u.mfaEnabled) = "undefined" THEN Null ELSE u.mfaEnabled,
     email |->
        IF In("email", d)
        THEN (IF TypeOf(d["email"]) = "string" THEN d["email"] ELSE Null)
        ELSE u.email,
     premium |->
        IF In("premium", d)
        THEN (IF TypeOf(d["premium"]) = "boolean" THEN d["premium"] ELSE u.premium)
        ELSE u.premium]

\* _patch with the verified key tested by truthiness, `if (data.verified)`
PatchVerifiedTruthy(u, d) ==
    [verified |->
        IF Truthy(Get(d, "verified")) THEN d["verified"] ELSE u.verified,
     mfaEnabled |->
        IF In("mfa_enabled", d)
        THEN (IF TypeOf(d["mfa_enabled"]) = "boolean" THEN d["mfa_enabled"] ELSE Null)
        ELSE IF TypeOf(u.mfaEnabled) = "undefined" THEN Null ELSE u.mfaEnabled,
     email |->
        IF In("email", d)
        THEN (IF TypeOf(d["email"]) = "string" THEN d["email"] ELSE Null)
        ELSE u.email,
     premium |->
        IF In("premium", d)
        THEN (IF TypeOf(d["premium"]) = "boolean" THEN d["premium"] ELSE Null)
        ELSE u.premium]

\* _patch without the `else if (typeof this.mfaEnabled === 'undefined')` branch
PatchNoMfaDefault(u, d) ==
    [verified |->
        IF In("verified", d) THEN d["verified"] ELSE u.verified,
     mfaEnabled |->
        IF In("mfa_enabled", d)
        THEN (IF TypeOf(d["mfa_enabled"]) = "boolean" THEN d["mfa_enabled"] ELSE Null)
        ELSE u.mfaEnabled,
     email |->
        IF In("email", d)
        THEN (IF TypeOf(d["email"]) = "string" THEN d["email"] ELSE Null)
        ELSE u.email,
     premium |->
        IF In("premium", d)
        THEN (IF TypeOf(d["premium"]) = "boolean" THEN d["premium"] ELSE Null)
        ELSE u.premium]

\* the entity fields after _patch(data)
_patch(u, d) ==
    [verified |->
        IF In("verified", d) THEN d["verified"] ELSE u.verified,
     mfaEnabled |->
        IF In("mfa_enabled", d)
        THEN (IF TypeOf(d["mfa_enabled"]) = "boolean" THEN d["mfa_enabled"] ELSE Null)
        ELSE IF TypeOf(u.mfaEnabled) = "undefined" THEN Null ELSE u.mfaEnabled,
     email |->
        IF In("email", d)
        THEN (IF TypeOf(d["email"]) = "string" THEN d["email"] ELSE Null)
        ELSE u.email,
     premium |->
        IF In("premium", d)
        THEN (IF TypeOf(d["premium"]) = "boolean" THEN d["premium"] ELSE Null)
        ELSE u.premium]

\* client.token after _patch(data): `if (data.token) this.client.token = data.token`
PatchToken(tok, d) == IF Truthy(Get(d, "token")) THEN d["token"] ELSE tok

\* client.token after edit's `this.client.token = newData.token`
EditToken(tok, newData) == Get(newData, "token")

\* UserUpdate.handle(newData), called by edit: updates client.user through _patch
UserUpdateHandle(u, newData) == _patch(u, newData)

InitUser ==
    /\ user = FreshUser
    /\ token = "'tokA'"
    /\ constructed = FALSE
    /\ op = "none"
    /\ data = NoData
    /\ before = FreshUser
    /\ tokenBefore = "'tokA'"

\* new ClientUser(client, data): the User constructor runs _patch(data.user)
NewClientUser(d) ==
    /\ ~constructed
    /\ constructed' = TRUE
    /\ user' = _patch(FreshUser, d)
    /\ token' = PatchToken(token, d)
    /\ op' = "new"
    /\ data' = d
    /\ before' = FreshUser
    /\ tokenBefore' = token
    /\ UNCHANGED <<inviteVars, settingsVars, readyVars>>

\* client.user._patch(data)
Patch(d) ==
    /\ constructed
    /\ user' = _patch(user, d)
    /\ token' = PatchToken(token, d)
    /\ op' = "patch"
    /\ data' = d
    /\ before' = user
    /\ tokenBefore' = token
    /\ UNCHANGED constructed
    /\ UNCHANGED <<inviteVars, settingsVars, readyVars>>

\* client.user.edit(...): the then-callback run on the response newData
Edit(newData) ==
    /\ constructed
    /\ user' = UserUpdateHandle(user, newData)
    /\ token' = PatchToken(EditToken(token, newData), newData)
    /\ op' = "edit"
    /\ data' = newData
    /\ before' = user
    /\ tokenBefore' = token
    /\ UNCHANGED constructed
    /\ UNCHANGED <<inviteVars, settingsVars, readyVars>>

NextPatch ==
    \/ \E d \in Payloads : NewClientUser(d)
    \/ \E d \in Payloads : Patch(d)
    \/ \E newData \in Payloads : Edit(newData)

(***************************************************************************)
(* ClientUser.acceptInvite                                                 *)
(***************************************************************************)
\* how many acceptInvite calls the model makes
NumCalls == 2

Calls == 1 .. NumCalls
GuildIds == {"g1", "g2"}
InviteCodes == {"'abc'"}
\* the `code` argument: an invite code or an Invite object carrying one
CodeArgs == [kind : {"string", "Invite"}, id : InviteCodes]
RequestErrors == {"Unknown Invite", "Network Error"}
InvalidCode == "Invite code is not valid"
TimedOut == "Accepting invite timed out"

NoPromise == [state |-> "none", value |-> "none"]
Pending == [state |-> "pending", value |-> "none"]

\* resolve(v) of a promise: only a pending promise settles
Resolve(p, v) ==
    IF p.state = "pending" THEN [state |-> "resolved", value |-> v] ELSE p

\* reject(e) that overwrites a settled outcome
RejectSettled(p, e) == [state |-> "rejected", value |-> e]

\* reject(e) of a promise: only a pending promise settles
Reject(p, e) ==
    IF p.state = "pending" THEN [state |-> "rejected", value |-> e] ELSE p

\* `if (code.id) code = code.id`
InviteCode(code) == code.id

\* a handler that takes every guild for its own
MatchesAny(c, g) == g \in GuildIds

\* `guild.id === res.id` in the handler of call c
Matches(c, g) == g = resId[c]

\* the calls whose handler is registered, in registration order
Registered == {listeners[i] : i \in 1 .. Len(listeners)}

\* the listener list without the handler of the calls in S
RemoveListeners(S) == SelectSeq(listeners, LAMBDA c : c \notin S)

InitInvite ==
    /\ req = [c \in Calls |-> "idle"]
    /\ reqError = [c \in Calls |-> "none"]
    /\ resId = [c \in Calls |-> "none"]
    /\ listeners = <<>>
    /\ timers = {}
    /\ promise = [c \in Calls |-> NoPromise]
    /\ removeCount = [c \in Calls |-> 0]
    /\ timerRan = [c \in Calls |-> FALSE]
    /\ timerRanAfterResolve = [c \in Calls |-> FALSE]
    /\ seen = [c \in Calls |-> {}]
    /\ early = [c \in Calls |-> {}]

\* acceptInvite(code): creates the promise and issues POST /invites/{code}
AcceptInvite(c, code) ==
    /\ req[c] = "idle"
    /\ InviteCode(code) \in InviteCodes
    /\ req' = [req EXCEPT ![c] = "inflight"]
    /\ promise' = [promise EXCEPT ![c] = Pending]
    /\ UNCHANGED <<reqError, resId, listeners, timers, removeCount, timerRan,
                   timerRanAfterResolve, seen, early>>
    /\ UNCHANGED <<userVars, settingsVars, readyVars>>

\* the request's response res arrives: the then-callback registers the
\* handler and starts the deadline timer
PostResolved(c, id) ==
    /\ req[c] = "inflight"
    /\ req' = [req EXCEPT ![c] = "ok"]
    /\ resId' = [resId EXCEPT ![c] = id]
    /\ listeners' = Append(listeners, c)
    /\ timers' = timers \cup {c}
    /\ UNCHANGED <<reqError, promise, removeCount, timerRan,
                   timerRanAfterResolve, seen, early>>
    /\ UNCHANGED <<userVars, settingsVars, readyVars>>

\* the request fails and no catch-callback rejects
PostRejectedNoCatch(c, e) ==
    /\ req[c] = "inflight"
    /\ req' = [req EXCEPT ![c] = "failed"]
    /\ reqError' = [reqError EXCEPT ![c] = e]
    /\ UNCHANGED <<resId, listeners, timers, promise, removeCount, timerRan,
                   timerRanAfterResolve, seen, early>>
    /\ UNCHANGED <<userVars, settingsVars, readyVars>>

\* the request fails: the catch-callback rejects
PostRejected(c, e) ==
    /\ req[c] = "inflight"
    /\ req' = [req EXCEPT ![c] = "failed"]
    /\ reqError' = [reqError EXCEPT ![c] = e]
    /\ promise' = [promise EXCEPT ![c] = Reject(promise[c], InvalidCode)]
    /\ UNCHANGED <<resId, listeners, timers, removeCount, timerRan,
                   timerRanAfterResolve, seen, early>>
    /\ UNCHANGED <<userVars, settingsVars, readyVars>>

\* client.emit(GUILD_CREATE, guild): every registered handler runs on guild
EmitGuildCreate(g) ==
    LET hit == {c \in Registered : Matches(c, g)} IN
    /\ promise' = [c \in Calls |->
                     IF c \in hit THEN Resolve(promise[c], g) ELSE promise[c]]
    /\ listeners' = RemoveListeners(hit)
    /\ removeCount' = [c \in Calls |->
                         IF c \in hit THEN removeCount[c] + 1 ELSE removeCount[c]]
    /\ seen' = [c \in Calls |->
                  IF req[c] # "idle" THEN seen[c] \cup {g} ELSE seen[c]]
    /\ early' = [c \in Calls |->
                   IF req[c] = "inflight" THEN early[c] \cup {g} ELSE early[c]]
    /\ UNCHANGED <<req, reqError, resId, timers, timerRan, timerRanAfterResolve>>
    /\ UNCHANGED <<userVars, settingsVars, readyVars>>

\* the deadline timer of call c fires and leaves the handler registered
TimerFireKeepsListener(c) ==
    /\ c \in timers
    /\ timers' = timers \ {c}
    /\ promise' = [promise EXCEPT ![c] = Reject(promise[c], TimedOut)]
    /\ timerRan' = [timerRan EXCEPT ![c] = TRUE]
    /\ timerRanAfterResolve' =
           [timerRanAfterResolve EXCEPT ![c] = promise[c].state = "resolved"]
    /\ UNCHANGED <<req, reqError, resId, seen, early, listeners, removeCount>>
    /\ UNCHANGED <<userVars, settingsVars, readyVars>>

\* the deadline timer of call c fires
TimerFire(c) ==
    /\ c \in timers
    /\ timers' = timers \ {c}
    /\ listeners' = RemoveListeners({c})
    /\ removeCount' = [removeCount EXCEPT ![c] = @ + 1]
    /\ promise' = [promise EXCEPT ![c] = Reject(promise[c], TimedOut)]
    /\ timerRan' = [timerRan EXCEPT ![c] = TRUE]
    /\ timerRanAfterResolve' =
           [timerRanAfterResolve EXCEPT ![c] = promise[c].state = "resolved"]
    /\ UNCHANGED <<req, reqError, resId, seen, early>>
    /\ UNCHANGED <<userVars, settingsVars, readyVars>>

NextInvite ==
    \/ \E c \in Calls, code \in CodeArgs : AcceptInvite(c, code)
    \/ \E c \in Calls, id \in GuildIds : PostResolved(c, id)
    \/ \E c \in Calls, e \in RequestErrors : PostRejected(c, e)
    \/ \E g \in GuildIds : EmitGuildCreate(g)
    \/ \E c \in Calls : TimerFire(c)

(***************************************************************************)
(* UserSettingsUpdateAction.handle                                         *)
(***************************************************************************)
\* how many times the model invokes the handler
MaxEvents == 4

SettingsPayloads == {"s1", "s2", "s3"}
USER_SETTINGS_UPDATE == "userSettingsUpdate"

InitSettings ==
    /\ handled = <<>>
    /\ emitted = <<>>

\* handle(settings) emitting only when the payload differs from the last one
EmissionOnChange(settings_) ==
    IF Len(handled) > 0 /\ handled[Len(handled)] = settings_
    THEN <<>>
    ELSE <<[event |-> USER_SETTINGS_UPDATE, payload |-> settings_]>>

\* the notification handle(settings) emits
Emission(settings_) == <<[event |-> USER_SETTINGS_UPDATE, payload |-> settings_]>>

\* handle(settings) that also patches client.user.settings with the payload
HandlePatchesSettings(settings_) ==
    /\ Len(handled) < MaxEvents
    /\ handled' = Append(handled, settings_)
    /\ emitted' = emitted \o Emission(settings_)
    /\ settings' = IF settings \in {Null, Undefined} THEN settings ELSE settings_
    /\ UNCHANGED <<selfRef, selfId, created, usersCache, guilds, channels>>
    /\ UNCHANGED <<shard, readyEvents, handlerChecks, lateChecks, lastReady,
                   lastCheck, sentGuilds, sentChannels, lastShardOf>>
    /\ UNCHANGED <<userVars, inviteVars>>

\* handle(settings)
Handle(settings_) ==
    /\ Len(handled) < MaxEvents
    /\ handled' = Append(handled, settings_)
    /\ emitted' = emitted \o Emission(settings_)
    /\ UNCHANGED <<userVars, inviteVars, readyVars>>

NextSettings ==
    \E s \in SettingsPayloads : Handle(s)

(***************************************************************************)
(* READY handler (client/websocket/handlers/READY)                         *)
(***************************************************************************)
\* how many READY events the model delivers
MaxReady == 2

Shards == {1, 2}
UserIds == {"u1", "u2"}
ChannelIds == {"c1", "c2"}
Collections == {"A", "B"}

\* data.user of the READY events
ReadyUsers == {NoData, FullPayload("true", Absent), FullPayload("'a@b.c'", Absent)}

\* the READY payloads d
ReadyData ==
    [user : ReadyUsers, userId : UserIds, user_settings : {Absent, "s1"},
     guilds : SUBSET GuildIds, private_channels : {{}, {"c1"}, {"c2"}}]

\* a READY payload read by _patch: d has the keys user, user_settings, guilds
\* and private_channels, and none of the keys _patch looks for
TopLevel(d) == [k \in Keys |-> Absent]

\* `data.user_settings ? new ClientUserSettings(this, data.user_settings) : null`
NewSettings(us) == IF Truthy(IF us = Absent THEN Undefined ELSE us) THEN us ELSE Null

\* client.guilds.add(guild): the entry is created, or patched when cached
GuildsAdd(cache, g, shardID) == [cache EXCEPT ![g] = shardID]

\* client.channels.add(privateDM)
ChannelsAdd(cache, ch) == cache \cup {ch}

\* the guild loop that forgets entries of earlier events
InsertGuildsReplace(cache, gs, s) ==
    [g \in GuildIds |-> IF g \in gs THEN s ELSE 0]

\* the guild loop that adds the guild before tagging it
InsertGuildsUntagged(cache, gs, s) ==
    [g \in GuildIds |-> IF g \in gs THEN GuildsAdd(cache, g, -1)[g] ELSE cache[g]]

\* `for (const guild of data.guilds) { guild.shardID = shard.id; add(guild) }`
InsertGuilds(cache, gs, s) ==
    [g \in GuildIds |-> IF g \in gs THEN GuildsAdd(cache, g, s)[g] ELSE cache[g]]

\* `for (const privateDM of data.private_channels) client.channels.add(privateDM)`
InsertChannels(cache, chs) ==
    cache \cup UNION {ChannelsAdd({}, ch) : ch \in chs}

\* checkReady that notifies whenever nothing is pending
CheckReadyAgain(sh) ==
    IF sh.expected = {}
    THEN [sh EXCEPT !.ready = TRUE, !.notified = @ + 1]
    ELSE sh

\* shard.checkReady(): the first time nothing is pending the shard becomes
\* ready and notifies
CheckReady(sh) ==
    IF ~sh.ready /\ sh.expected = {}
    THEN [sh EXCEPT !.ready = TRUE, !.notified = @ + 1]
    ELSE sh

\* what the handler's checkReady call sees when it runs before the inserts
SeenByEarlyCheck(hasUser, gs, chs) ==
    [user |-> hasUser,
     guilds |-> {g \in GuildIds : guilds[g] # 0},
     channels |-> channels]

\* what the handler's checkReady call sees: it runs last
SeenByCheck(hasUser, gs, chs) ==
    [user |-> hasUser, guilds |-> gs, channels |-> chs]

NoReady == [shard |-> 0, guilds |-> {}, channels |-> {}]

InitReady ==
    /\ selfRef = 0
    /\ selfId = "none"
    /\ created = 0
    /\ usersCache = [u \in UserIds |-> 0]
    /\ settings = Undefined
    /\ guilds = [g \in GuildIds |-> 0]
    /\ channels = {}
    /\ shard = [s \in Shards |->
                  [expected |-> Collections, ready |-> FALSE, notified |-> 0]]
    /\ readyEvents = [s \in Shards |-> 0]
    /\ handlerChecks = [s \in Shards |-> 0]
    /\ lateChecks = [s \in Shards |-> 0]
    /\ lastReady = NoReady
    /\ lastCheck = [user |-> FALSE, guilds |-> {}, channels |-> {}]
    /\ sentGuilds = [s \in Shards |-> {}]
    /\ sentChannels = [s \in Shards |-> {}]
    /\ lastShardOf = [g \in GuildIds |-> 0]

RECURSIVE Sum(_, _)
Sum(f, S) == IF S = {} THEN 0
             ELSE LET x == CHOOSE x \in S : TRUE IN f[x] + Sum(f, S \ {x})

\* the handler's first part on the patch path: client.user._patch(data)
ReadyPatchSelf(d) ==
    /\ constructed
    /\ user' = _patch(user, TopLevel(d))
    /\ token' = PatchToken(token, TopLevel(d))
    /\ op' = "readyPatch"
    /\ UNCHANGED <<constructed, selfRef, selfId, created, usersCache, settings>>

\* the handler's first part on the create path: new ClientUser(client, data),
\* client.user = clientUser, client.users.cache.set(clientUser.id, clientUser)
ReadyCreateSelf(d) ==
    /\ ~constructed
    /\ constructed' = TRUE
    /\ user' = _patch(FreshUser, d.user)
    /\ token' = PatchToken(token, d.user)
    /\ settings' = NewSettings(d.user_settings)
    /\ created' = created + 1
    /\ selfRef' = created + 1
    /\ selfId' = d.userId
    /\ usersCache' = [usersCache EXCEPT ![d.userId] = created + 1]
    /\ op' = "readyNew"

\* the READY handler that constructs a ClientUser on every event
ReadyAlwaysCreate(s, d) ==
    /\ Sum(readyEvents, Shards) < MaxReady
    /\ constructed' = TRUE
    /\ user' = _patch(FreshUser, d.user)
    /\ token' = PatchToken(token, d.user)
    /\ settings' = NewSettings(d.user_settings)
    /\ created' = created + 1
    /\ selfRef' = created + 1
    /\ selfId' = d.userId
    /\ usersCache' = [usersCache EXCEPT ![d.userId] = created + 1]
    /\ op' = IF constructed THEN "readyPatch" ELSE "readyNew"
    /\ data' = d.user
    /\ before' = user
    /\ tokenBefore' = token
    /\ guilds' = InsertGuilds(guilds, d.guilds, s)
    /\ channels' = InsertChannels(channels, d.private_channels)
    /\ shard' = [shard EXCEPT ![s] = CheckReady(@)]
    /\ readyEvents' = [readyEvents EXCEPT ![s] = @ + 1]
    /\ handlerChecks' = [handlerChecks EXCEPT ![s] = @ + 1]
    /\ lateChecks' = [lateChecks EXCEPT ![s] = IF shard[s].ready THEN @ + 1 ELSE @]
    /\ lastReady' = [shard |-> s, guilds |-> d.guilds, channels |-> d.private_channels]
    /\ lastCheck' = SeenByCheck(constructed', {g \in GuildIds : guilds'[g] # 0}, channels')
    /\ sentGuilds' = [sentGuilds EXCEPT ![s] = @ \cup d.guilds]
    /\ sentChannels' = [sentChannels EXCEPT ![s] = @ \cup d.private_channels]
    /\ lastShardOf' = [g \in GuildIds |-> IF g \in d.guilds THEN s ELSE lastShardOf[g]]
    /\ UNCHANGED <<inviteVars, settingsVars>>

\* the READY handler, run for the event d of shard s
Ready(s, d) ==
    /\ Sum(readyEvents, Shards) < MaxReady
    /\ ReadyPatchSelf(d) \/ ReadyCreateSelf(d)
    /\ data' = d.user
    /\ before' = user
    /\ tokenBefore' = token
    /\ guilds' = InsertGuilds(guilds, d.guilds, s)
    /\ channels' = InsertChannels(channels, d.private_channels)
    /\ shard' = [shard EXCEPT ![s] = CheckReady(@)]
    /\ readyEvents' = [readyEvents EXCEPT ![s] = @ + 1]
    /\ handlerChecks' = [handlerChecks EXCEPT ![s] = @ + 1]
    /\ lateChecks' = [lateChecks EXCEPT ![s] = IF shard[s].ready THEN @ + 1 ELSE @]
    /\ lastReady' = [shard |-> s, guilds |-> d.guilds, channels |-> d.private_channels]
    /\ lastCheck' = SeenByCheck(constructed', {g \in GuildIds : guilds'[g] # 0}, channels')
    /\ sentGuilds' = [sentGuilds EXCEPT ![s] = @ \cup d.guilds]
    /\ sentChannels' = [sentChannels EXCEPT ![s] = @ \cup d.private_channels]
    /\ lastShardOf' = [g \in GuildIds |-> IF g \in d.guilds THEN s ELSE lastShardOf[g]]
    /\ UNCHANGED <<inviteVars, settingsVars>>

\* the shard observes one of the collections it expects, then checks readiness
Observe(s, c) ==
    /\ shard' = [shard EXCEPT ![s] = CheckReady([@ EXCEPT !.expected = @ \ {c}])]
    /\ UNCHANGED <<cacheVars, readyEvents, handlerChecks, lateChecks, lastReady,
                   lastCheck, sentGuilds, sentChannels, lastShardOf>>
    /\ UNCHANGED <<userVars, inviteVars, settingsVars>>

NextReady ==
    \E s \in Shards, d \in ReadyData : Ready(s, d)

\* the READY events of the readiness model: no guilds, no private channels
ShardReadyData == {d \in ReadyData : d.guilds = {} /\ d.private_channels = {}}

NextShard ==
    \/ \E s \in Shards, d \in ShardReadyData : Ready(s, d)
    \/ \E s \in Shards, c \in Collections : Observe(s, c)

\* the first READY event and the settings updates
NextClient ==
    \/ \E s \in Shards, d \in ReadyData : ~constructed /\ Ready(s, d)
    \/ \E p \in SettingsPayloads : Handle(p)

(***************************************************************************)
(* Specifications                                                          *)
(***************************************************************************)
Init == InitUser /\ InitInvite /\ InitSettings /\ InitReady

SpecPatch == Init /\ [][NextPatch]_vars
SpecInvite == Init /\ [][NextInvite]_vars
SpecSettings == Init /\ [][NextSettings]_vars
SpecReady == Init /\ [][NextReady]_vars
SpecShard == Init /\ [][NextShard]_vars
SpecClient == Init /\ [][NextClient]_vars

(***************************************************************************)
(* Properties of acceptInvite                                              *)
(***************************************************************************)
Rejected(e) == [state |-> "rejected", value |-> e]
Resolved(g) == [state |-> "resolved", value |-> g]
Settled(c) == promise[c].state \in {"resolved", "rejected"}

\* C1: once the deadline timer of a call has fired, the call's handler is not
\* registered, and if no GUILD_CREATE with the response's id was emitted since
\* the call was made, the call is rejected with the timeout error.
C1_TimeoutRejects ==
    \A c \in Calls :
        timerRan[c] =>
            /\ c \notin Registered
            /\ resId[c] \notin seen[c] => promise[c] = Rejected(TimedOut)

C1_Witness ==
    \E c \in Calls :
        /\ timerRan[c]
        /\ seen[c] # {}
        /\ resId[c] \notin seen[c]
        /\ promise[c] = Rejected(TimedOut)

\* C2: a call resolved by a matching GUILD_CREATE has its deadline timer
\* cancelled: the timer callback of a call never runs after the call resolved.
C2_TimerCancelledOnResolve ==
    \A c \in Calls :
        /\ promise[c].state = "resolved" => promise[c].value = resId[c]
        /\ ~timerRanAfterResolve[c]

\* C3: removeListener runs exactly once for the handler of every call that
\* registered one: never twice, and at least once when the call has settled.
C3_RemovedExactlyOnce ==
    \A c \in Calls :
        /\ removeCount[c] <= 1
        /\ (req[c] = "ok" /\ Settled(c)) => removeCount[c] >= 1

\* C4: a call's outcome, once reached, never changes: no step turns a
\* resolved call into a rejected one, a rejected call into a resolved one,
\* or changes the value it settled with.
C4_OutcomeFinal ==
    [][\A c \in Calls : Settled(c) => promise'[c] = promise[c]]_vars

C4_Witness ==
    \E c \in Calls :
        /\ promise[c] = Resolved(resId[c])
        /\ timerRan[c]
        /\ resId[c] \in seen[c]

\* C5 (as stated): a call whose request failed is rejected with that
\* request's failure, has no handler registered and no timer pending.
C5_RejectsWithRequestFailure ==
    \A c \in Calls :
        req[c] = "failed" =>
            /\ promise[c] = Rejected(reqError[c])
            /\ c \notin Registered
            /\ c \notin timers

\* C5 (amended): a call whose request failed is rejected with the fixed error
\* 'Invite code is not valid', whatever the request's failure was; that error
\* differs from the timeout error; the call has no handler registered and no
\* timer pending.
C5_RejectsInvalidCode ==
    \A c \in Calls :
        req[c] = "failed" =>
            /\ promise[c] = Rejected(InvalidCode)
            /\ promise[c] # Rejected(TimedOut)
            /\ c \notin Registered
            /\ c \notin timers
            /\ removeCount[c] = 0

C5_Witness ==
    \E c \in Calls :
        /\ req[c] = "failed"
        /\ reqError[c] = "Network Error"
        /\ promise[c] = Rejected(InvalidCode)
        /\ Registered # {}

\* C6: a matching GUILD_CREATE emitted while the request is in flight is not
\* lost: a call whose response names a guild emitted before the response
\* arrived does not time out.
C6_EarlyEventNotLost ==
    \A c \in Calls :
        (req[c] = "ok" /\ resId[c] \in early[c]) => promise[c] # Rejected(TimedOut)

(***************************************************************************)
(* Properties of _patch and edit                                           *)
(***************************************************************************)
\* the entity field a payload key is stored in
FieldOf(k) == IF k = "mfa_enabled" THEN "mfaEnabled" ELSE k

PatchOps == {"new", "patch"}

\* C7 (as stated): after _patch, a field whose key is absent from the payload
\* has the value it had before, and a field whose key is present with null is
\* null.
C7_AbsentKeptNullCleared ==
    op \in PatchOps =>
        \A k \in FieldKeys :
            /\ ~In(k, data) => user[FieldOf(k)] = before[FieldOf(k)]
            /\ data[k] = Null => user[FieldOf(k)] = Null

\* C7 (amended): as stated, except that mfaEnabled, when its key is absent and
\* it was undefined before the patch, becomes null.
C7_AbsentKeptExceptMfaDefault ==
    op \in PatchOps =>
        \A k \in FieldKeys :
            /\ (~In(k, data) /\ ~(k = "mfa_enabled" /\ before.mfaEnabled = Undefined))
                   => user[FieldOf(k)] = before[FieldOf(k)]
            /\ (~In(k, data) /\ k = "mfa_enabled" /\ before.mfaEnabled = Undefined)
                   => user.mfaEnabled = Null
            /\ data[k] = Null => user[FieldOf(k)] = Null

C7_Witness ==
    /\ op = "patch"
    /\ data["email"] = Null
    /\ before.email = "'a@b.c'"
    /\ user.email = Null
    /\ ~In("verified", data)
    /\ before.verified = "true"

\* the payload with P2's keys and those keys of P1 that P2 does not contain
Combine(P1, P2) == [k \in Keys |-> IF In(k, P2) THEN P2[k] ELSE P1[k]]

\* C8: a _patch that follows a _patch leaves the entity fields that one _patch
\* with the combined payload yields from the entity before the first.
C8_PatchComposition ==
    [][(op \in PatchOps /\ op' = "patch")
           => user' = _patch(before, Combine(data, data'))]_vars

C8_Witness ==
    /\ op = "patch"
    /\ data["premium"] = "0"
    /\ before.premium = "true"
    /\ user.premium = Null
    /\ ~In("email", data)
    /\ user.email = "'a@b.c'"

\* C9: client.token changes only when the payload of a patch or the response
\* of an edit carries a token: it then becomes that value, and otherwise keeps
\* its value (stated for the payloads whose token, if any, is a non-empty
\* string).
C9_TokenOnlyWhenCarried ==
    (op # "none" /\ (In("token", data) => Truthy(data["token"]))) =>
        token = IF In("token", data) THEN data["token"] ELSE tokenBefore

Coerce(k, v) ==
    IF k = "verified" THEN v
    ELSE IF k = "email" THEN (IF TypeOf(v) = "string" THEN v ELSE Null)
    ELSE (IF TypeOf(v) = "boolean" THEN v ELSE Null)

\* C15: after _patch every field whose key is present in the payload, with
\* whatever value (false, 0 and null included), holds the payload's value
\* coerced for that field: mfaEnabled and premium the value when it is a
\* boolean and null otherwise, email the value when it is a string and null
\* otherwise, verified the value as given.
C15_PresenceAndCoercion ==
    op \in PatchOps =>
        \A k \in FieldKeys :
            In(k, data) => user[FieldOf(k)] = Coerce(k, data[k])

C15_Witness ==
    /\ op = "patch"
    /\ data = FullPayload("0", Absent)
    /\ before.verified = "true"
    /\ before.email = "'a@b.c'"
    /\ before.premium = "false"
    /\ user.verified = "0"
    /\ user.email = Null
    /\ user.premium = Null

\* C16: once _patch has run on a ClientUser, mfaEnabled is true, false or
\* null, never undefined.
C16_MfaNeverUndefined ==
    constructed => user.mfaEnabled \in Booleans \cup {Null}

C16_Witness ==
    /\ op = "new"
    /\ ~In("mfa_enabled", data)
    /\ In("email", data)
    /\ before.mfaEnabled = Undefined
    /\ user.mfaEnabled = Null

(***************************************************************************)
(* Further properties of acceptInvite                                      *)
(***************************************************************************)
\* a step changes the promise, the registration or the removals of call c
Touched(c) ==
    \/ promise'[c] # promise[c]
    \/ (c \in Registered) # (c \in Registered')
    \/ removeCount'[c] # removeCount[c]

\* C19: an emission of GUILD_CREATE (a step that changes neither a request
\* nor a timer) touches a call only by resolving it with the guild whose id
\* is the id of that call's own response, and then touches no call whose
\* response carries another id.
C19_OnlyOwnGuildResolves ==
    [][(req' = req /\ timers' = timers) =>
          \A c \in Calls :
              Touched(c) =>
                  /\ c \in Registered
                  /\ promise'[c] = Resolved(resId[c])
                  /\ c \notin Registered'
                  /\ \A c2 \in Calls : resId[c2] # resId[c] => ~Touched(c2)]_vars

C19_Witness ==
    \E c \in Calls, c2 \in Calls :
        /\ promise[c] = Resolved(resId[c])
        /\ resId[c2] \notin {resId[c], "none"}
        /\ resId[c] \in seen[c2] \ early[c2]
        /\ promise[c2] = Pending
        /\ c2 \in Registered
        /\ removeCount[c2] = 0

(***************************************************************************)
(* Properties of the READY handler                                         *)
(***************************************************************************)
Cached == {g \in GuildIds : guilds[g] # 0}
ReadyOps == {"readyNew", "readyPatch"}

\* C11: over any sequence of READY events at most one ClientUser is ever
\* constructed; from the first event on client.user is that object, and the
\* user cache maps its id to it.
C11_SelfCreatedOnce ==
    /\ created <= 1
    /\ Sum(readyEvents, Shards) >= 1 =>
           /\ created = 1
           /\ selfRef = 1
           /\ selfId \in UserIds
           /\ usersCache[selfId] = selfRef

C11_Witness ==
    /\ readyEvents[1] = 1
    /\ readyEvents[2] = 1
    /\ op = "readyPatch"
    /\ created = 1
    /\ usersCache[selfId] = selfRef

\* C12: a shard expecting the collections A and B notifies readiness at most
\* once, has notified exactly when both have been observed, and is ready
\* exactly when it has notified, whatever READY events it handles.
C12_ReadyOnce ==
    \A s \in Shards :
        /\ shard[s].notified <= 1
        /\ shard[s].notified = 1 <=> shard[s].expected = {}
        /\ shard[s].ready <=> shard[s].notified = 1

C12_Witness ==
    \E s \in Shards, s2 \in Shards :
        /\ shard[s].notified = 1
        /\ lateChecks[s] >= 1
        /\ shard[s2].expected = {"B"}
        /\ readyEvents[s2] >= 1
        /\ shard[s2].notified = 0

\* C13: when both shards have delivered READY events and the guild ids and
\* the private channel ids of the one are disjoint from those of the other,
\* the guild cache and the channel cache hold exactly the union of the
\* entries delivered, each guild as its shard delivered it.
C13_DisjointUnion ==
    (/\ \A s \in Shards : readyEvents[s] >= 1
     /\ sentGuilds[1] \cap sentGuilds[2] = {}
     /\ sentChannels[1] \cap sentChannels[2] = {})
    => /\ Cached = sentGuilds[1] \cup sentGuilds[2]
       /\ \A s \in Shards : \A g \in sentGuilds[s] : guilds[g] = s
       /\ channels = sentChannels[1] \cup sentChannels[2]

C13_Witness ==
    /\ sentGuilds[1] = {"g1"}
    /\ sentGuilds[2] = {"g2"}
    /\ sentChannels[1] = {"c1"}
    /\ sentChannels[2] = {"c2"}
    /\ lastReady.shard = 1
    /\ Cached = {"g1", "g2"}
    /\ channels = {"c1", "c2"}

\* C14: after a READY event handled when client.user already exists, every
\* field whose key is present in the event's user record holds the coerced
\* value of that record.
C14_ReconnectMergesUser ==
    op = "readyPatch" =>
        \A k \in FieldKeys :
            In(k, data) => user[FieldOf(k)] = Coerce(k, data[k])

\* C17: every cached guild carries the id of the shard whose READY event
\* most recently carried it, and no other guild is cached.
C17_GuildShardTag ==
    \A g \in GuildIds : guilds[g] = lastShardOf[g]

C17_Witness ==
    \E g \in GuildIds :
        /\ g \in sentGuilds[1]
        /\ lastShardOf[g] = 2
        /\ guilds[g] = 2

\* C18: the handler has called checkReady of a shard once for each READY
\* event of that shard, and its last call ran with client.user set and every
\* guild and private channel of its event cached.
C18_CheckOncePerEventAfterInserts ==
    /\ \A s \in Shards : handlerChecks[s] = readyEvents[s]
    /\ lastReady.shard # 0 =>
           /\ lastCheck.user
           /\ lastReady.guilds \subseteq lastCheck.guilds
           /\ lastReady.channels \subseteq lastCheck.channels

C18_Witness ==
    /\ op = "readyPatch"
    /\ lastReady.shard = 2
    /\ handlerChecks[1] = 1
    /\ handlerChecks[2] = 1
    /\ lastReady.guilds = {"g2"}
    /\ lastReady.channels = {"c2"}
    /\ "g2" \notin sentGuilds[1]
    /\ lastCheck.guilds = Cached
    /\ "c2" \in lastCheck.channels

\* C20: an invocation of the settings-update handler leaves client.user, its
\* fields and its settings, the caches and client.token as they were; it
\* appends one emission carrying its payload.
C20_HandleChangesNoState ==
    [][handled' # handled =>
          /\ UNCHANGED <<user, constructed, token, cacheVars>>
          /\ emitted' = Append(emitted,
                 [event |-> USER_SETTINGS_UPDATE,
                  payload |-> handled'[Len(handled')]])]_vars

C20_Witness ==
    /\ constructed
    /\ settings = "s1"
    /\ Len(handled) >= 1
    /\ handled[Len(handled)] = "s2"
    /\ Len(emitted) = Len(handled)

====
